---- MODULE Spec2Model ----
(***************************************************************************)
(* grelly: a version for the current git commit, derived from the branch   *)
(* name and from the history since the last release point, and the         *)
(* release cutter that commits and tags the next minor version.            *)
(*                                                                         *)
(* Strings are sequences of one-character strings, so that lower-casing,   *)
(* prefix tests, the version pattern and the rendering of numbers are      *)
(* computed character by character as src/src/main.rs computes them.       *)
(* Option<T> is a sequence of length 0 (None) or 1 (Some), Result<T, E> a  *)
(* record with the field ok.                                               *)
(***************************************************************************)
EXTENDS Integers, Sequences, FiniteSets, TLC

\* ------------------------------------------------------------------------
\* Option and Result
\* ------------------------------------------------------------------------
None == <<>>
Some(x) == <<x>>
Ok(v) == [ok |-> TRUE, val |-> v]
Err(e) == [ok |-> FALSE, err |-> e]

\* ------------------------------------------------------------------------
\* Characters and strings
\* ------------------------------------------------------------------------
LowerLetters == <<"a","b","c","d","e","f","g","h","i","j","k","l","m",
                  "n","o","p","q","r","s","t","u","v","w","x","y","z">>
UpperLetters == <<"A","B","C","D","E","F","G","H","I","J","K","L","M",
                  "N","O","P","Q","R","S","T","U","V","W","X","Y","Z">>
Digits == <<"0","1","2","3","4","5","6","7","8","9">>

\* The byte order of the characters the model uses (ASCII), by which the
\* backend lists reference names.
CharOrder == <<" ", "-", ".", "/">> \o Digits \o <<":">> \o UpperLetters \o LowerLetters

IndexOf(seq, c) == CHOOSE i \in 1..Len(seq) : seq[i] = c
UpperSet == {UpperLetters[i] : i \in 1..Len(UpperLetters)}
LowerSet == {LowerLetters[i] : i \in 1..Len(LowerLetters)}
DigitSet == {Digits[i] : i \in 1..Len(Digits)}
LowerOf == [c \in UpperSet |-> LowerLetters[IndexOf(UpperLetters, c)]]
DigitValue == [c \in DigitSet |-> IndexOf(Digits, c) - 1]
Rank == [c \in {CharOrder[i] : i \in 1..Len(CharOrder)} |-> IndexOf(CharOrder, c)]

is_upper(c) == c \in UpperSet
is_letter(c) == c \in LowerSet
is_digit(c) == c \in DigitSet
is_sep(c) == c = "." \/ c = "-"

\* str::to_lowercase
to_lowercase(s) ==
    [i \in 1..Len(s) |-> IF is_upper(s[i]) THEN LowerOf[s[i]] ELSE s[i]]

\* str::starts_with
starts_with(s, p) == Len(s) >= Len(p) /\ SubSeq(s, 1, Len(p)) = p

\* String::split_off(at): the tail of the string from byte offset `at`
split_off(s, at) == SubSeq(s, at + 1, Len(s))

\* str::parse::<usize> of a run of decimal digits
RECURSIVE parse_usize(_)
parse_usize(ds) ==
    IF Len(ds) = 0 THEN 0
    ELSE 10 * parse_usize(SubSeq(ds, 1, Len(ds) - 1))
         + DigitValue[ds[Len(ds)]]

\* format!("{}", n) of a usize
RECURSIVE format_usize(_)
format_usize(n) ==
    IF n < 10 THEN <<Digits[n + 1]>>
    ELSE format_usize(n \div 10) \o <<Digits[(n % 10) + 1]>>

\* ------------------------------------------------------------------------
\* SemanticVersion
\* ------------------------------------------------------------------------
SemanticVersion(major, minor, patch, ident, commit) ==
    [major |-> major, minor |-> minor, patch |-> patch,
     ident |-> ident, commit |-> commit]

version_string(v) ==
    LET triple == format_usize(v.major) \o <<".">> \o format_usize(v.minor)
                  \o <<".">> \o format_usize(v.patch)
    IN IF v.ident # None THEN triple \o <<"-">> \o v.ident[1] ELSE triple

\* ------------------------------------------------------------------------
\* The numeric pattern  ([a-z])?(\d+)([\.\-](\d+))?([\.\-](\d+))?
\* ------------------------------------------------------------------------
\* The pattern can start at i: an optional letter, then at least one digit.
MatchesAt(name, i) ==
    \/ is_digit(name[i])
    \/ is_letter(name[i]) /\ i + 1 <= Len(name) /\ is_digit(name[i + 1])

\* The last index of the greedy run of digits that starts at d.
DigitsEnd(name, d) ==
    CHOOSE e \in d..Len(name) :
        /\ \A k \in d..e : is_digit(name[k])
        /\ e + 1 <= Len(name) => ~is_digit(name[e + 1])

\* The optional group  [\.\-](\d+)  tried right after index e: the span of
\* its digits, or None when the group does not take part in the match.
SepGroup(name, e) ==
    IF e + 2 <= Len(name) /\ is_sep(name[e + 1]) /\ is_digit(name[e + 2])
    THEN Some([from |-> e + 2, to |-> DigitsEnd(name, e + 2)])
    ELSE None

\* Regex::captures: the leftmost match, as the spans of groups 2, 4 and 6.
captures(name) ==
    IF \A i \in 1..Len(name) : ~MatchesAt(name, i) THEN None
    ELSE LET i  == CHOOSE j \in 1..Len(name) :
                       MatchesAt(name, j) /\ \A k \in 1..(j - 1) : ~MatchesAt(name, k)
             d  == IF is_digit(name[i]) THEN i ELSE i + 1
             e  == DigitsEnd(name, d)
             g4 == SepGroup(name, e)
             g6 == IF g4 = None THEN None ELSE SepGroup(name, g4[1].to)
         IN Some([g2 |-> Some([from |-> d, to |-> e]), g4 |-> g4, g6 |-> g6])

to_number(name, s) ==
    IF s = None THEN 0 ELSE parse_usize(SubSeq(name, s[1].from, s[1].to))

\* the match arm of version_from_string: caps is what re.captures(&name)
\* returned
version_from_captures(name, caps, commit) ==
    IF caps = None THEN None
    ELSE Some(SemanticVersion(to_number(name, caps[1].g2),
                              to_number(name, caps[1].g4),
                              to_number(name, caps[1].g6),
                              None, commit))

\* the body of version_from_string once the name is lower-cased
version_from_lowercase(name, commit) ==
    version_from_captures(name, captures(name), commit)

version_from_string(raw_name, commit) ==
    version_from_lowercase(to_lowercase(raw_name), commit)

\* ------------------------------------------------------------------------
\* The repository (the backend's state, as far as the program reads or
\* writes it)
\* ------------------------------------------------------------------------
VARIABLES
    branch,     \* shorthand of the reference HEAD points to
    commits,    \* object database: commits[oid] = [message, parent, tree]
    head,       \* oid the current branch points to
    tags,       \* set of [name, target, annotated]
    workdir,    \* files of the working tree: set of [name, content]
    index,      \* paths staged in the on-disk index
    released,   \* number of runs with --release so far
    last        \* what the last run did and returned

repovars == <<branch, commits, head, tags, workdir, index>>
vars == <<branch, commits, head, tags, workdir, index, released, last>>

Repo == [branch |-> branch, commits |-> commits, head |-> head, tags |-> tags,
         workdir |-> workdir, index |-> index]

\* oid of "no parent" (a root commit)
NoParent == 0

\* Object::short_id, rendered from the object's number
short_id(oid) == format_usize(oid)

\* ------------------------------------------------------------------------
\* branch_version
\* ------------------------------------------------------------------------
S_master == <<"m","a","s","t","e","r">>
S_main == <<"m","a","i","n">>
S_release == <<"r","e","l","e","a","s","e">>
S_feature_slash == <<"f","e","a","t","u","r","e","/">>
S_fix_slash == <<"f","i","x","/">>
S_other == <<"o","t","h","e","r">>
S_release_colon == <<"r","e","l","e","a","s","e",":">>

\* mutant: the prefixes are tested before the version pattern
branch_version_prefix_first(r) ==
    LET b == to_lowercase(r.branch)
        v == version_from_string(b, None)
    IN IF b = S_master \/ b = S_main \/ b = S_release
            THEN Ok([kind |-> "Master"])
       ELSE IF starts_with(b, S_feature_slash)
            THEN Ok([kind |-> "Feature", name |-> split_off(b, 8)])
       ELSE IF starts_with(b, S_fix_slash)
            THEN Ok([kind |-> "Fix", name |-> split_off(b, 4)])
       ELSE IF v # None THEN Ok([kind |-> "Release", v |-> v[1]])
       ELSE Ok([kind |-> "Other", name |-> b])

branch_version(r) ==
    LET b == to_lowercase(r.branch)
        v == version_from_string(b, None)
    IN IF v # None THEN Ok([kind |-> "Release", v |-> v[1]])
       ELSE IF b = S_master \/ b = S_main \/ b = S_release
            THEN Ok([kind |-> "Master"])
       ELSE IF starts_with(b, S_feature_slash)
            THEN Ok([kind |-> "Feature", name |-> split_off(b, 8)])
       ELSE IF starts_with(b, S_fix_slash)
            THEN Ok([kind |-> "Fix", name |-> split_off(b, 4)])
       ELSE Ok([kind |-> "Other", name |-> b])

\* ------------------------------------------------------------------------
\* PatchVersion
\* ------------------------------------------------------------------------
PatchVersion(release, distance, ident, oid, short) ==
    [release |-> Some(release), patch_count |-> distance, patch_oid |-> oid,
     patch_short |-> short, ident |-> ident]

\* mutant: the distance is not added to the patch
semver_no_distance(pv) ==
    IF pv.release # None
    THEN SemanticVersion(pv.release[1].major, pv.release[1].minor,
                         pv.release[1].patch, pv.ident, pv.patch_short)
    ELSE SemanticVersion(0, 0, pv.patch_count, pv.ident, pv.patch_short)

semver(pv) ==
    IF pv.release # None
    THEN SemanticVersion(pv.release[1].major, pv.release[1].minor,
                         pv.release[1].patch + pv.patch_count,
                         pv.ident, pv.patch_short)
    ELSE SemanticVersion(0, 0, pv.patch_count, pv.ident, pv.patch_short)

\* ------------------------------------------------------------------------
\* Tags
\* ------------------------------------------------------------------------
\* a sorts before b, byte by byte
NameLess(a, b) ==
    \/ Len(a) < Len(b) /\ SubSeq(b, 1, Len(a)) = a
    \/ \E k \in 1..Len(a) :
          /\ k <= Len(b)
          /\ SubSeq(a, 1, k - 1) = SubSeq(b, 1, k - 1)
          /\ Rank[a[k]] < Rank[b[k]]

RECURSIVE SortNames(_)
SortNames(S) ==
    IF S = {} THEN <<>>
    ELSE LET m == CHOOSE x \in S : \A y \in S \ {x} : NameLess(x, y)
         IN <<m>> \o SortNames(S \ {m})

\* Repository::tag_names(None): the names of the tags, sorted
tag_names(r) == SortNames({t.name : t \in r.tags})

\* resolve_tag: only a reference that peels to a tag object resolves
resolve_tag(r, name) ==
    LET t == CHOOSE x \in r.tags : x.name = name
    IN IF t.annotated THEN Ok([name |-> name, target |-> t.target])
       ELSE Err("git error")

\* collect() into HashMap<Oid, FullTag>: a later name replaces an earlier
\* one with the same target
RECURSIVE collect(_, _)
collect(r, names) ==
    IF Len(names) = 0 THEN <<>>
    ELSE LET rest == collect(r, SubSeq(names, 1, Len(names) - 1))
             t    == resolve_tag(r, names[Len(names)])
         IN IF t.ok
            THEN [o \in (DOMAIN rest) \cup {t.val.target} |->
                     IF o = t.val.target THEN t.val ELSE rest[o]]
            ELSE rest

\* ------------------------------------------------------------------------
\* head_version
\* ------------------------------------------------------------------------
MaxWalk == 4096

\* mutant: the marker is not looked for
is_release_message_any(cm) == TRUE

is_release_message(cm) == starts_with(to_lowercase(cm), S_release_colon)

\* mutant: the bound is off by one
too_many_ge(count) == count >= MaxWalk

too_many(count) == count > MaxWalk

\* One iteration of `for roid in revwalk`, the walk being first-parent from
\* HEAD, newest first: st is the position of the loop ([pc |-> "loop", oid,
\* count], oid the commit the iterator yields next, NoParent when it is
\* exhausted); the result is the position after the iteration, or
\* [pc |-> "return", res] when the function returns.
loop_body(r, tagmap, st) ==
    IF st.oid = NoParent
    THEN [pc |-> "return",
          res |-> Ok(PatchVersion(SemanticVersion(0, 0, 0, None, None), st.count,
                                  None, Some(r.head), Some(short_id(r.head))))]
    ELSE LET commit == r.commits[st.oid]
             cm     == commit.message
             mrv    == IF is_release_message(cm)
                       THEN version_from_string(cm, Some(short_id(st.oid)))
                       ELSE None
             trv    == IF st.oid \in DOMAIN tagmap
                       THEN version_from_string(tagmap[st.oid].name,
                                                Some(short_id(st.oid)))
                       ELSE None
         IN IF mrv # None
            THEN [pc |-> "return",
                  res |-> Ok(PatchVersion(mrv[1], st.count, None,
                                          Some(r.head), Some(short_id(r.head))))]
            ELSE IF trv # None
            THEN [pc |-> "return",
                  res |-> Ok(PatchVersion(trv[1], st.count, None,
                                          Some(r.head), Some(short_id(r.head))))]
            ELSE IF too_many(st.count + 1)
            THEN [pc |-> "return", res |-> Err("too many commits")]
            ELSE [pc |-> "loop", oid |-> commit.parent, count |-> st.count + 1]

\* The loop run for at most n iterations from position st. The iterations
\* run in order; the range is halved only to keep the evaluation shallow.
RECURSIVE iterate(_, _, _, _)
iterate(r, tagmap, st, n) ==
    IF st.pc = "return" THEN st
    ELSE IF n <= 1 THEN loop_body(r, tagmap, st)
    ELSE LET mid == iterate(r, tagmap, st, n \div 2)
         IN iterate(r, tagmap, mid, n - (n \div 2))

\* A first-parent chain has no more commits than the object database, so
\* Len(r.commits) + 1 iterations exhaust the iterator if nothing returns
\* earlier.
head_version(r) ==
    LET tagmap == collect(r, tag_names(r))
        end    == iterate(r, tagmap, [pc |-> "loop", oid |-> r.head, count |-> 0],
                          Len(r.commits) + 1)
    IN end.res

\* ------------------------------------------------------------------------
\* main_version
\* ------------------------------------------------------------------------
\* mutant: a zero on the head side wins over the branch
nmerge_head_only(b, h) ==
    IF b = 0 \/ h = 0 THEN Ok(h)
    ELSE IF b = h THEN Ok(b)
    ELSE Err("major version mismatch")

nmerge(b, h) ==
    IF b = 0 \/ h = 0 THEN Ok(h + b)
    ELSE IF b = h THEN Ok(b)
    ELSE Err("major version mismatch")

\* main_version after its two calls: bres is what branch_version(repo)
\* returned, hres what head_version(repo) returned (each ? returns the error)
merge_version(bres, hres) ==
    IF ~bres.ok THEN bres
    ELSE IF ~hres.ok THEN hres
    ELSE LET bv    == bres.val
             headv == semver(hres.val)
         IN CASE bv.kind = "Master" -> Ok(semver(hres.val))
              [] bv.kind = "Release" ->
                   LET major == nmerge(bv.v.major, headv.major)
                       minor == nmerge(bv.v.minor, headv.minor)
                   IN IF ~major.ok THEN major
                      ELSE IF ~minor.ok THEN minor
                      ELSE Ok(SemanticVersion(major.val, minor.val, headv.patch,
                                              None, headv.commit))
              [] bv.kind = "Feature" ->
                   Ok(SemanticVersion(headv.major, headv.minor, headv.patch,
                                      Some(bv.name), headv.commit))
              [] bv.kind = "Fix" ->
                   Ok(SemanticVersion(headv.major, headv.minor, headv.patch,
                                      Some(bv.name), headv.commit))
              [] bv.kind = "Other" ->
                   Ok(SemanticVersion(headv.major, headv.minor, headv.patch,
                                      Some(S_other), headv.commit))

main_version(r) == merge_version(branch_version(r), head_version(r))

\* ------------------------------------------------------------------------
\* main_release
\* ------------------------------------------------------------------------
S_changes_dot == <<"c","h","a","n","g","e","s",".">>
S_changes_for == <<"C","h","a","n","g","e","s"," ","f","o","r"," ",
                   "v","e","r","s","i","o","n"," ">>
S_newline == <<"\n">>
S_release_colon_space == S_release_colon \o <<" ">>

\* the step of main_release that fails, if any
FailPoints == {"none", "create", "index", "commit", "tag"}

\* mutant: the test is inverted
nothing_to_release_inverted(current_version) == current_version.patch # 0

nothing_to_release(current_version) == current_version.patch = 0

\* mutant: the patch is bumped instead of the minor
next_version_patch(current_version) ==
    SemanticVersion(current_version.major, current_version.minor,
                    current_version.patch + 1, None, None)

next_version(current_version) ==
    SemanticVersion(current_version.major, current_version.minor + 1, 0, None, None)

panoo_version(next) ==
    <<"P">> \o format_usize(next.major) \o <<"-">> \o format_usize(next.minor)
    \o (IF next.ident # None THEN <<"-">> \o next.ident[1] ELSE <<>>)

release_message(next) == S_release_colon_space \o version_string(next)

\* File::create (truncating) and the writes that follow
write_file(r, name, content) ==
    [r EXCEPT !.workdir = {f \in @ : f.name # name}
                          \cup {[name |-> name, content |-> content]}]

\* Repository::commit(Some("HEAD"), ..): the new commit, and the branch
\* HEAD points to moved to it
commit(r, message, tree, parent) ==
    [r EXCEPT !.commits = Append(@, [message |-> message, parent |-> parent,
                                     tree |-> tree]),
              !.head = Len(r.commits) + 1]

\* Repository::tag(name, target, .., force = true)
tag_force(r, name, target) ==
    [r EXCEPT !.tags = {t \in @ : t.name # name}
                       \cup {[name |-> name, target |-> target, annotated |-> TRUE]}]

\* The repository main_release leaves behind and what it returns, when the
\* step `fail` (if any) returns an error; cur is what main_version(repo)
\* returned at its first line.
main_release(r, cur, fail) ==
    IF ~cur.ok THEN [repo |-> r, res |-> cur]
    ELSE IF nothing_to_release(cur.val)
       THEN [repo |-> r, res |-> Err("patch version is not zero")]
    ELSE
       LET next     == next_version(cur.val)
           filename == S_changes_dot \o version_string(next)
           r1       == write_file(r, filename,
                                  S_changes_for \o version_string(next) \o S_newline)
           tree     == r.index \cup {filename}
           nexthead == Len(r.commits) + 1
           r2       == commit(r1, release_message(next), tree, r.head)
           r3       == tag_force(r2, panoo_version(next), nexthead)
       IN CASE fail = "create" -> [repo |-> r,  res |-> Err("io error")]
            [] fail = "index"  -> [repo |-> r1, res |-> Err("git error")]
            [] fail = "commit" -> [repo |-> r1, res |-> Err("git error")]
            [] fail = "tag"    -> [repo |-> r2, res |-> Err("git error")]
            [] fail = "none"   -> [repo |-> r3, res |-> Ok(next)]

\* ------------------------------------------------------------------------
\* Inputs
\* ------------------------------------------------------------------------
MaxCommits == 3      \* longest history drawn with free messages and tags
MaxOver == 1         \* how far the long histories go past the walk bound
MaxReleases == 1     \* runs with --release in one behaviour

M_wip == <<"w","i","p">>
M_rel140 == <<"r","e","l","e","a","s","e",":"," ","1",".","4",".","0">>
M_Rel20 == <<"R","e","l","e","a","s","e",":"," ","v","2",".","0">>
M_soon == <<"r","e","l","e","a","s","e",":"," ","s","o","o","n">>
M_fix12 == <<"f","i","x"," ","1","2">>
Messages == {M_wip, M_Rel20, M_soon}
MergeMessages == {M_wip, M_rel140}
BranchMessages == {M_wip, M_fix12}

T_100 == <<"1",".","0",".","0">>
T_v20 == <<"v","2",".","0">>
T_stable == <<"s","t","a","b","l","e">>
\* the tags drawn: a name, and whether the tag may be lightweight
TagKinds == {[name |-> T_100, kinds |-> {TRUE}], [name |-> T_stable, kinds |-> {TRUE}]}
MergeTagKinds == {[name |-> T_v20, kinds |-> BOOLEAN]}

B_main == <<"m","a","i","n">>
B_Master == <<"M","a","s","t","e","r">>
B_release == <<"r","e","l","e","a","s","e">>
B_20 == <<"2",".","0">>
B_14 == <<"1",".","4">>
B_r1 == <<"r","e","l","e","a","s","e","-","1">>
B_feature_foo == <<"f","e","a","t","u","r","e","/","f","o","o">>
B_Feature_Login == <<"F","e","a","t","u","r","e","/","L","o","g","i","n">>
B_feature_login2 == <<"f","e","a","t","u","r","e","/","l","o","g","i","n","2">>
B_fix_bar == <<"f","i","x","/","b","a","r">>
B_wip_stuff == <<"w","i","p","-","s","t","u","f","f">>
B_fixes == <<"f","i","x","e","s">>
Branches == {B_main, B_Master, B_release, B_20, B_14, B_r1, B_feature_foo,
             B_Feature_Login, B_feature_login2, B_fix_bar, B_wip_stuff, B_fixes}
MergeBranches == {B_main, B_20, B_14, B_r1, B_Feature_Login, B_fix_bar, B_wip_stuff}

\* a linear history: commit i has parent i - 1, the branch points at the last
Linear(msgs) == [i \in 1..Len(msgs) |->
                    [message |-> msgs[i], parent |-> i - 1, tree |-> {}]]

\* every set of tags of the kinds `kinds` on the commits 1..n, a name used
\* at most once
TagSets(kinds, n) ==
    {{[name |-> k.name, target |-> f[k][1], annotated |-> f[k][2]] :
          k \in {x \in kinds : f[x] # <<>>}} :
       f \in {g \in [kinds -> {<<>>} \cup ((1..n) \X BOOLEAN)] :
                 \A k \in kinds : g[k] # <<>> => g[k][2] \in k.kinds}}

F_readme == <<"R","E","A","D","M","E">>

\* the histories of 1..MaxCommits commits with messages from `messages`
Histories(messages) ==
    UNION {[1..n -> messages] : n \in 1..MaxCommits}

\* a long history of plain commits on top of the commit `root`
LongHistory(root, n) == [i \in 1..n |-> IF i = 1 THEN root ELSE M_wip]

InitFiles ==
    /\ workdir = {[name |-> F_readme, content |-> <<>>]}
    /\ index = {F_readme}
    /\ released = 0
    /\ last = [op |-> "none"]

\* short histories with every message and tag, on the branch main
InitHistory ==
    /\ branch = B_main
    /\ \E msgs \in Histories(Messages) :
          /\ commits = Linear(msgs)
          /\ head = Len(msgs)
          /\ tags \in TagSets(TagKinds, Len(msgs))
    /\ InitFiles

\* histories around the bound of the walk
InitLong ==
    /\ branch = B_main
    /\ \E n \in MaxWalk..(MaxWalk + MaxOver), root \in {M_wip, M_Rel20} :
          /\ commits = Linear(LongHistory(root, n))
          /\ head = n
    /\ tags = {}
    /\ InitFiles

\* the branch names the merge rules tell apart, on short histories
InitMerge ==
    /\ branch \in MergeBranches
    /\ \E msgs \in Histories(MergeMessages) :
          /\ commits = Linear(msgs)
          /\ head = Len(msgs)
          /\ tags \in TagSets(MergeTagKinds, Len(msgs))
    /\ InitFiles

\* every branch name, on a history of one commit
InitBranch ==
    /\ branch \in Branches
    /\ \E m \in BranchMessages : commits = Linear(<<m>>)
    /\ head = 1
    /\ tags = {}
    /\ InitFiles

Init == InitHistory \/ InitLong \/ InitMerge \/ InitBranch

\* ------------------------------------------------------------------------
\* Runs of the program (main_result)
\* ------------------------------------------------------------------------
\* without --release: main_version, the repository is only read
MainVersion ==
    /\ last' = [op |-> "version", res |-> main_version(Repo)]
    /\ UNCHANGED <<repovars, released>>

\* with --release: main_release
MainRelease ==
    /\ released < MaxReleases
    /\ LET cur == main_version(Repo)
       IN \E out \in {main_release(Repo, cur, fail) : fail \in FailPoints} :
             /\ branch' = out.repo.branch
             /\ commits' = out.repo.commits
             /\ head' = out.repo.head
             /\ tags' = out.repo.tags
             /\ workdir' = out.repo.workdir
             /\ index' = out.repo.index
             /\ last' = [op |-> "release", res |-> out.res]
    /\ released' = released + 1

Next == MainVersion \/ MainRelease

Spec == Init /\ [][Next]_vars

\* ------------------------------------------------------------------------
\* Properties
\* ------------------------------------------------------------------------
\* The first n commits of the first-parent chain from oid, newest first
\* (fewer when the chain ends earlier).
RECURSIVE ChainN(_, _)
ChainN(oid, n) ==
    IF n <= 0 \/ oid = NoParent THEN <<>>
    ELSE IF n = 1 THEN <<oid>>
    ELSE LET a == ChainN(oid, n \div 2)
         IN IF Len(a) < n \div 2 THEN a
            ELSE a \o ChainN(commits[a[Len(a)]].parent, n - (n \div 2))

Chain == ChainN(head, Len(commits))

MinOf(S) == CHOOSE i \in S : \A j \in S : i <= j

Triple(v) == <<v.major, v.minor, v.patch>>

\* the version a commit message announces: it starts with "release:", in
\* any case, and the pattern finds a version in it
MessageVersions(oid) ==
    LET m == to_lowercase(commits[oid].message)
    IN IF Len(m) >= 8 /\ SubSeq(m, 1, 8) = S_release_colon
          /\ version_from_string(m, None) # None
       THEN {Triple(version_from_string(m, None)[1])}
       ELSE {}

\* the versions of the tag objects that point at a commit
AnnotatedTagVersions(oid) ==
    {Triple(version_from_string(t.name, None)[1]) :
        t \in {x \in tags : x.annotated /\ x.target = oid
                            /\ version_from_string(x.name, None) # None}}

\* the versions of all tags, lightweight ones too, that point at a commit
AnyTagVersions(oid) ==
    {Triple(version_from_string(t.name, None)[1]) :
        t \in {x \in tags : x.target = oid
                            /\ version_from_string(x.name, None) # None}}

\* C1: head_version returns at the first commit of the first-parent chain,
\* newest first, whose message starts with "release:" and holds a version or
\* that a tag with a version in its name points at; the version is that
\* commit's, the distance the number of commits visited before it.
C1_FirstQualifyingCommit ==
    last.op = "version" =>
        LET ch == Chain
            hv == head_version(Repo)
            Q  == {i \in 1..Len(ch) :
                      MessageVersions(ch[i]) \cup AnnotatedTagVersions(ch[i]) # {}}
        IN (Q # {} /\ MinOf(Q) <= MaxWalk + 1) =>
              /\ hv.ok
              /\ hv.val.patch_count = MinOf(Q) - 1
              /\ hv.val.release # None
              /\ Triple(hv.val.release[1]) \in
                    MessageVersions(ch[MinOf(Q)]) \cup AnnotatedTagVersions(ch[MinOf(Q)])

\* no commit of the chain is a release point, by message or by any tag
NoReleasePoint(ch) ==
    \A i \in 1..Len(ch) : MessageVersions(ch[i]) \cup AnyTagVersions(ch[i]) = {}

\* C7 as stated: a chain of N <= 4096 commits without a release point gives
\* release = absent and distance = N.
C7_AbsentRelease ==
    (last.op = "version" /\ Len(Chain) <= MaxWalk /\ NoReleasePoint(Chain)) =>
        LET hv == head_version(Repo)
        IN hv.ok /\ hv.val.release = None /\ hv.val.patch_count = Len(Chain)

\* C7 amended: a chain of N <= 4096 commits without a release point gives
\* the release 0.0.0 (with no identifier and no commit; never absent) and
\* distance = N, so the head-derived version is 0.0.N.
C7_ZeroRelease ==
    (last.op = "version" /\ Len(Chain) <= MaxWalk /\ NoReleasePoint(Chain)) =>
        LET hv == head_version(Repo)
        IN /\ hv.ok
           /\ hv.val.release = Some(SemanticVersion(0, 0, 0, None, None))
           /\ hv.val.patch_count = Len(Chain)
           /\ Triple(semver(hv.val)) = <<0, 0, Len(Chain)>>

C7_Witness ==
    /\ last.op = "version"
    /\ Len(Chain) = MaxWalk
    /\ NoReleasePoint(Chain)
    /\ last.res.ok /\ last.res.val.patch = MaxWalk

\* the commits at which the walk returns a version: by message, else by
\* the tag the tag index holds for the commit
WalkMatches(ch) ==
    LET tagmap == collect(Repo, tag_names(Repo))
    IN {i \in 1..Len(ch) :
           \/ MessageVersions(ch[i]) # {}
           \/ /\ ch[i] \in DOMAIN tagmap
              /\ version_from_string(tagmap[ch[i]].name, None) # None}

\* C8: head_version fails, with "too many commits", exactly when more than
\* 4096 commits come before the first match; otherwise the distance is the
\* number of commits before the match (up to 4096), never a truncated one;
\* and 4097 iterations of the loop end the walk.
C8_TooDeepIff ==
    last.op = "version" =>
        LET ch == Chain
            hv == head_version(Repo)
            M  == WalkMatches(ch)
            nm == IF M = {} THEN Len(ch) ELSE MinOf(M) - 1
            st == iterate(Repo, collect(Repo, tag_names(Repo)),
                          [pc |-> "loop", oid |-> head, count |-> 0], 4097)
        IN /\ ~hv.ok <=> nm > 4096
           /\ ~hv.ok => hv.err = "too many commits"
           /\ hv.ok => hv.val.patch_count = nm /\ nm <= 4096
           /\ st.pc = "return" \/ st.oid = NoParent

C8_Witness ==
    /\ last.op = "version"
    /\ last.res = Err("too many commits")
    /\ Len(Chain) = 4097

\* the branch name, lower-cased, and what the branch classifier makes of it
LowerBranch == to_lowercase(branch)
BranchKind == branch_version(Repo).val.kind
HasDigit(b) == \E i \in 1..Len(b) : b[i] \in {"0","1","2","3","4","5","6","7","8","9"}

\* the head-derived version: the release point's, its patch raised by the
\* distance; 0.0.distance without a release point
HeadDerived(pv) ==
    IF pv.release = None THEN <<0, 0, pv.patch_count>>
    ELSE <<pv.release[1].major, pv.release[1].minor,
           pv.release[1].patch + pv.patch_count>>

\* nmerge as the merge policy states it: the merged number, or nothing
\* when the two disagree
MergeRule(a, b) ==
    IF a = 0 THEN <<b>>
    ELSE IF b = 0 THEN <<a>>
    ELSE IF a = b THEN <<a>>
    ELSE <<>>

\* C2: on a Release(branchv) branch main_version returns
\* nmerge(branchv.major, headv.major), nmerge(branchv.minor, headv.minor),
\* headv.patch and no identifier, nmerge giving the other value when one is
\* 0 and the common value when both agree; when major or minor differ (both
\* non-zero) main_version fails with the mismatch error.
C2_ReleaseMerge ==
    (last.op = "version" /\ BranchKind = "Release" /\ head_version(Repo).ok) =>
        LET bv    == branch_version(Repo).val.v
            hd    == HeadDerived(head_version(Repo).val)
            major == MergeRule(bv.major, hd[1])
            minor == MergeRule(bv.minor, hd[2])
        IN IF major = <<>> \/ minor = <<>>
           THEN last.res = Err("major version mismatch")
           ELSE /\ last.res.ok
                /\ Triple(last.res.val) = <<major[1], minor[1], hd[3]>>
                /\ last.res.val.ident = None

C2_Witness ==
    /\ last.op = "version"
    /\ branch = B_14
    /\ last.res.ok
    /\ Triple(last.res.val) = <<1, 4, 2>>

\* C3: on a Master, Feature, Fix or Other branch main_version fails only if
\* head_version does, and returns the head-derived major, minor and patch;
\* the identifier is absent for Master, the rest of the (lower-cased) branch
\* name after "feature/" or "fix/" for Feature and Fix, "other" for Other.
C3_OtherCategories ==
    (last.op = "version" /\ BranchKind # "Release") =>
        LET hv == head_version(Repo)
            b  == LowerBranch
        IN IF ~hv.ok THEN last.res = hv
           ELSE /\ last.res.ok
                /\ Triple(last.res.val) = HeadDerived(hv.val)
                /\ BranchKind = "Master" => last.res.val.ident = None
                /\ BranchKind = "Feature" =>
                      last.res.val.ident = Some(SubSeq(b, 9, Len(b)))
                /\ BranchKind = "Fix" =>
                      last.res.val.ident = Some(SubSeq(b, 5, Len(b)))
                /\ BranchKind = "Other" =>
                      last.res.val.ident = Some(<<"o","t","h","e","r">>)

C3_Witness ==
    /\ last.op = "version"
    /\ branch = B_Feature_Login
    /\ last.res.ok
    /\ Triple(last.res.val) = <<1, 4, 2>>
    /\ last.res.val.ident = Some(<<"l","o","g","i","n">>)

\* C9: branch_version puts every branch name in exactly one category, the
\* first that applies to the lower-cased name: Release(version) when the
\* pattern finds a version (the name holds a digit), Master for "master",
\* "main" and "release", Feature(rest) after "feature/", Fix(rest) after
\* "fix/", Other(name) otherwise.
C9_Classification ==
    LET b  == LowerBranch
        bv == branch_version(Repo)
        isMaster  == b \in {<<"m","a","s","t","e","r">>, <<"m","a","i","n">>,
                            <<"r","e","l","e","a","s","e">>}
        isFeature == Len(b) >= 8 /\ SubSeq(b, 1, 8) = <<"f","e","a","t","u","r","e","/">>
        isFix     == Len(b) >= 4 /\ SubSeq(b, 1, 4) = <<"f","i","x","/">>
    IN /\ bv.ok
       /\ bv.val.kind \in {"Release", "Master", "Feature", "Fix", "Other"}
       /\ bv.val.kind = "Release" <=> HasDigit(b)
       /\ bv.val.kind = "Master" <=> ~HasDigit(b) /\ isMaster
       /\ bv.val.kind = "Feature" <=> ~HasDigit(b) /\ ~isMaster /\ isFeature
       /\ bv.val.kind = "Fix" <=> ~HasDigit(b) /\ ~isMaster /\ ~isFeature /\ isFix
       /\ bv.val.kind = "Feature" => bv.val.name = SubSeq(b, 9, Len(b))
       /\ bv.val.kind = "Fix" => bv.val.name = SubSeq(b, 5, Len(b))
       /\ bv.val.kind = "Other" => bv.val.name = b
       /\ branch = B_main => bv.val = [kind |-> "Master"]
       /\ branch = B_20 => bv.val.kind = "Release" /\ Triple(bv.val.v) = <<2, 0, 0>>
       /\ branch = B_feature_foo => bv.val = [kind |-> "Feature", name |-> <<"f","o","o">>]
       /\ branch = B_fix_bar => bv.val = [kind |-> "Fix", name |-> <<"b","a","r">>]
       /\ branch = B_wip_stuff => bv.val = [kind |-> "Other", name |-> B_wip_stuff]

C9_Witness ==
    /\ last.op = "version"
    /\ branch = B_feature_login2
    /\ last.res.ok
    /\ last.res.val.major = 2 /\ last.res.val.ident = None

\* C4: main_release on a merged version with patch = 0 fails with its
\* nothing-to-release error and writes nothing: files, index, commits, the
\* branch and the tags stay as they are.
C4_NothingToRelease ==
    [][(last'.op = "release" /\ main_version(Repo).ok
           /\ main_version(Repo).val.patch = 0) =>
          /\ last'.res = Err("patch version is not zero")
          /\ UNCHANGED <<branch, commits, head, tags, workdir, index>>]_vars

C4_Witness ==
    /\ last.op = "release"
    /\ last.res = Err("patch version is not zero")
    /\ released = 1

\* C5: a main_release that succeeds from the version (M, m, p), p # 0,
\* returns (M, m+1, 0) without identifier; the repository has one more
\* commit, its parent the previous HEAD commit, its message
\* "release: M.(m+1).0", the branch moved to it, and the annotated tag
\* "P<M>-<m+1>" points at it, in place of any earlier tag of that name.
C5_ReleaseEffects ==
    [][(last'.op = "release" /\ last'.res.ok) =>
          LET cur  == main_version(Repo).val
              num  == format_usize(cur.major) \o <<".">>
                      \o format_usize(cur.minor + 1) \o <<".", "0">>
              name == <<"P">> \o format_usize(cur.major) \o <<"-">>
                      \o format_usize(cur.minor + 1)
              new  == Len(commits) + 1
          IN /\ cur.patch # 0
             /\ last'.res.val = SemanticVersion(cur.major, cur.minor + 1, 0, None, None)
             /\ Len(commits') = new
             /\ SubSeq(commits', 1, Len(commits)) = commits
             /\ commits'[new].parent = head
             /\ commits'[new].message = <<"r","e","l","e","a","s","e",":"," ">> \o num
             /\ head' = new
             /\ branch' = branch
             /\ tags' = {t \in tags : t.name # name}
                        \cup {[name |-> name, target |-> new, annotated |-> TRUE]}
             /\ (cur.major = 1 /\ cur.minor = 4) =>
                   /\ num = <<"1", ".", "5", ".", "0">>
                   /\ name = <<"P", "1", "-", "5">>]_vars

C5_Witness ==
    /\ last.op = "release"
    /\ last.res.ok
    /\ Triple(last.res.val) = <<1, 5, 0>>
    /\ commits[head].message = <<"r","e","l","e","a","s","e",":"," ","1",".","5",".","0">>
    /\ [name |-> <<"P","1","-","5">>, target |-> head, annotated |-> TRUE] \in tags

\* C6: a main_release that fails leaves no new commit on the branch without
\* a tag on it, and no new tag without the new commit.
C6_NoPartialRelease ==
    [][(last'.op = "release" /\ ~last'.res.ok) =>
          /\ head' # head => \E t \in tags' : t.target = head'
          /\ tags' # tags => head' # head]_vars

\* C10: right after a main_release that returned next = (M, m+1, 0),
\* main_version succeeds on the repository it left and gives M, m+1, 0.
C10_VersionAfterRelease ==
    (last.op = "release" /\ last.res.ok) =>
        /\ main_version(Repo).ok
        /\ Triple(main_version(Repo).val) = Triple(last.res.val)

====
